---------------------------- MODULE Spec2Model ----------------------------
(***************************************************************************)
(* A model of the sliding-DFT prototype (src/sdft.js: Complex, RingBuffer, *)
(* SlidingDFT) and of the audio-worklet wrapper (src/js/pianolizer.js:     *)
(* PianolizerNode).                                                        *)
(*                                                                         *)
(* Numbers.  A JavaScript number is modelled as a record                   *)
(*   [c |-> "fin", v |-> n]   the finite value n, in model units           *)
(*   [c |-> "inf", v |-> s]   the infinity of sign s (1 or -1)             *)
(*   [c |-> "nan", v |-> 0]   NaN                                          *)
(* A finite double is an integer number of units; a Float32Array element   *)
(* is a multiple of Grid units, and a store into a Float32Array rounds to  *)
(* the nearest multiple (Fround).  The sample 1.0 is One = 8 * Grid units, *)
(* so that 1.0/2 and 1.0/4 are float32 values and 1.0/3 is not and is     *)
(* rounded up, as in IEEE 754.  The program's large constants are scaled down: windowSize    *)
(* 128 -> 2, the ring buffer's 2^16 -> 2^2 or 2^3, k = 440 -> 1 and        *)
(* sampleRate -> 2 or 4, which keeps coeff = e^(i*2*pi*k/N) a power of i.  *)
(* The behaviours of the frame-counting throttle alone use larger rates,   *)
(* with silent input (see ThrottleRates).                                  *)
(***************************************************************************)
EXTENDS Integers, Sequences, FiniteSets, TLC

(* ------------------------------ bounds -------------------------------- *)
\* SlidingDFT.process calls in one behaviour
MaxCalls == 3
\* RingBuffer.write calls in one behaviour of the buffer alone
MaxWrites == 6
\* PianolizerNode.process calls in one behaviour
MaxNodeCalls == 3
\* PianolizerNode.process calls in one behaviour of the throttle
MaxTimedCalls == 5
\* SlidingDFT.process calls in one behaviour of the frame-counting throttle
MaxFrameCalls == 24
\* SlidingDFT.process calls in one behaviour with malformed samples
MaxMalformedCalls == 3
\* a level is kept in units of 1/LevelScale
LevelScale == 4
\* channel counts of the one input port
ChannelCounts == 0 .. 3

(* -------------------------- scaled constants -------------------------- *)
\* the float32 spacing, in units of the double spacing
Grid == 3
One == 8 * Grid
\* src/sdft.js:86, scaled from 128
windowSize == 2
\* src/sdft.js:70, scaled from 440
k == 1
\* src/sdft.js:65, 1000 / 30, in thirtieths (so is nextUpdateFrame)
updateIntervalInMS == 1000
\* src/js/pianolizer.js:20, 1.0 / 60 s, in clock ticks of 1/120 s
updateInterval == 2
\* the denominator of a smoothing factor: parameters.smooth[0] in eighths
SmoothDen == 8
\* src/js/pianolizer.js:41-42, the least and the greatest smoothing factor
Smooths == {0, 2}
\* the audio host's global sampleRate (src/sdft.js:72), scaled
\* and RingBuffer's constructor parameter bits (src/sdft.js:45), scaled
\* from 16: the pairs <<sampleRate, bits>> an engine is constructed with
Configs == {<<2, 2>>, <<4, 2>>, <<4, 3>>}
\* the sample values an input channel may carry
SampleVals == {0, One}
\* frames per channel in one process call
BlockLens == {1, 2, 3}

(* ------------------------------ numbers ------------------------------- *)
Fin(n) == [c |-> "fin", v |-> n]
NaN == [c |-> "nan", v |-> 0]
Inf(s) == [c |-> "inf", v |-> s]
Zero == Fin(0)

IsFin(a) == a.c = "fin"
IsNaN(a) == a.c = "nan"
Sign(n) == IF n > 0 THEN 1 ELSE IF n < 0 THEN -1 ELSE 0

\* p / q rounded to the nearest integer (half up), q > 0
RoundDiv(p, q) == (2 * p + q) \div (2 * q)

FNeg(a) == IF IsNaN(a) THEN NaN ELSE [c |-> a.c, v |-> 0 - a.v]

FAdd(a, b) ==
  IF IsNaN(a) \/ IsNaN(b) THEN NaN
  ELSE IF IsFin(a) /\ IsFin(b) THEN Fin(a.v + b.v)
  ELSE IF IsFin(a) THEN b
  ELSE IF IsFin(b) THEN a
  ELSE IF a.v = b.v THEN a ELSE NaN

\* mutant: a non-finite value less itself is 0
FSubCancelling(a, b) == IF ~IsFin(a) /\ a = b THEN Zero ELSE FAdd(a, FNeg(b))

FSub(a, b) == FAdd(a, FNeg(b))

FMul(a, b) ==
  IF IsNaN(a) \/ IsNaN(b) THEN NaN
  ELSE IF IsFin(a) /\ IsFin(b) THEN Fin(a.v * b.v)
  ELSE IF Sign(a.v) * Sign(b.v) = 0 THEN NaN
  ELSE Inf(Sign(a.v) * Sign(b.v))

\* a / (num / den) for the exact ratio num/den of two counts, den > 0
FDivRatio(a, num, den) ==
  IF IsNaN(a) THEN NaN
  ELSE IF num = 0 THEN (IF a.v = 0 THEN NaN ELSE Inf(Sign(a.v)))
  ELSE IF IsFin(a) THEN Fin(RoundDiv(a.v * den, num))
  ELSE a

\* the store into a Float32Array element
Fround(a) == IF IsFin(a) THEN Fin(Grid * RoundDiv(a.v, Grid)) ELSE a

RECURSIVE Isqrt(_)
Isqrt(x) ==
  IF x < 2 THEN x
  ELSE LET s == 2 * Isqrt(x \div 4)
       IN  IF (s + 1) * (s + 1) <= x THEN s + 1 ELSE s

(* ------------------------------ Complex ------------------------------- *)
Complex(re, im) == [re |-> re, im |-> im]

CAdd(a, z) == Complex(FAdd(a.re, z.re), FAdd(a.im, z.im))

CSub(a, z) == Complex(FSub(a.re, z.re), FSub(a.im, z.im))

CMul(a, z) ==
  Complex(FSub(FMul(a.re, z.re), FMul(a.im, z.im)),
          FAdd(FMul(a.re, z.im), FMul(a.im, z.re)))

\* exp of the purely imaginary 2*pi*kk/nn, for an angle that is a whole
\* number of quarter turns: the unit i^q as a complex with integer parts
CExpTurn(kk, nn) ==
  LET q == ((4 * kk) \div nn) % 4
  IN  CASE q = 0 -> Complex(Fin(1), Fin(0))
        [] q = 1 -> Complex(Fin(0), Fin(1))
        [] q = 2 -> Complex(Fin(-1), Fin(0))
        [] q = 3 -> Complex(Fin(0), Fin(-1))

\* re*re + im*im, the square of magnitude
MagSq(z) == FAdd(FMul(z.re, z.re), FMul(z.im, z.im))

(* ----------------------------- RingBuffer ----------------------------- *)
NewRingBuffer(bits) ==
  LET size == 2 ^ bits
  IN  [mask |-> size - 1, buffer |-> [j \in 0 .. size - 1 |-> Zero], index |-> 0]

Capacity(r) == r.mask + 1

\* x & mask for mask = 2^bits - 1: the low bits of x, also of a negative x
\* (ToInt32 keeps them, 2^32 being a multiple of mask + 1)
BitAnd(x, mask) == x % (mask + 1)

\* ~index on a 32-bit integer
BitNot(index) == 0 - index - 1

RBWrite(r, value) ==
  [r EXCEPT !.buffer[BitAnd(r.index, r.mask)] = Fround(value),
            !.index = r.index + 1]

\* mutant: the lookback negated instead of complemented
RBReadNegated(r, index) == r.buffer[BitAnd(r.index - index, r.mask)]

\* mutant: a lookback past the buffer's end clamped to the oldest element
RBReadClamped(r, index) ==
  r.buffer[BitAnd(r.index + BitNot(IF index > r.mask THEN r.mask ELSE index),
                  r.mask)]

RBRead(r, index) == r.buffer[BitAnd(r.index + BitNot(index), r.mask)]

(* ------------------- SlidingDFT (the prototype) ----------------------- *)
\* the constructor, for the host's sampleRate sr and a buffer of 2^bits
NewSlidingDFT(sr, bits) ==
  [ringBuffer |-> NewRingBuffer(bits), N |-> sr, coeff |-> CExpTurn(k, sr),
   dft |-> Complex(Zero, Zero), totalPower |-> Zero,
   nextUpdateFrame |-> updateIntervalInMS]

\* get intervalInFrames, in thirtieths: updateIntervalInMS / 1000 * N
intervalInFrames(t) == (updateIntervalInMS * t.N) \div 1000

RECURSIVE Flatten(_)
\* the channels of all ports, in the order the two outer loops visit them
Flatten(input) ==
  IF input = <<>> THEN <<>> ELSE Head(input) \o Flatten(Tail(input))

RECURSIVE CountSamples(_)
\* count, after the mix-down loops
CountSamples(chs) ==
  IF chs = <<>> THEN 0 ELSE Len(Head(chs)) + CountSamples(Tail(chs))

RECURSIVE MixChannel(_, _)
\* samples[sampleIndex] += sample for every sample of one channel; a store
\* past the end of the Float32Array is dropped
MixChannel(samples, ch) ==
  IF samples = <<>> THEN <<>>
  ELSE IF ch = <<>> THEN samples
  ELSE <<Fround(FAdd(Head(samples), Head(ch)))>>
         \o MixChannel(Tail(samples), Tail(ch))

RECURSIVE MixInto(_, _)
\* the mix-down loops over the channels chs, into the Float32Array samples
MixInto(samples, chs) ==
  IF chs = <<>> THEN samples
  ELSE MixInto(MixChannel(samples, Head(chs)), Tail(chs))

RECURSIVE Zeros(_)
\* new Float32Array(len)
Zeros(len) == IF len = 0 THEN <<>> ELSE <<Zero>> \o Zeros(len - 1)

\* mutant: the sample leaving the window is not subtracted from dft
BinUpdateNoSub(t, currentSample) ==
  LET rb == RBWrite(t.ringBuffer, currentSample)
      previousSample == RBRead(rb, t.N)
  IN  [t EXCEPT
         !.ringBuffer = rb,
         !.dft = CMul(CAdd(t.dft, Complex(currentSample, Zero)), t.coeff),
         !.totalPower = FAdd(FSub(t.totalPower,
                                  FMul(previousSample, previousSample)),
                             FMul(currentSample, currentSample))]

\* one pass of the loop body after currentSample is known: write, read back
\* N, update dft and totalPower
BinUpdate(t, currentSample) ==
  LET rb == RBWrite(t.ringBuffer, currentSample)
      previousSample == RBRead(rb, t.N)
  IN  [t EXCEPT
         !.ringBuffer = rb,
         !.dft = CMul(CAdd(CSub(t.dft, Complex(previousSample, Zero)),
                           Complex(currentSample, Zero)),
                      t.coeff),
         !.totalPower = FAdd(FSub(t.totalPower,
                                  FMul(previousSample, previousSample)),
                             FMul(currentSample, currentSample))]

RECURSIVE Steps(_, _)
\* the objects after each iteration of the loop over the values cur
Steps(t, cur) ==
  IF cur = <<>> THEN <<>>
  ELSE LET t1 == BinUpdate(t, Head(cur)) IN <<t1>> \o Steps(t1, Tail(cur))

\* this.dft.magnitude / Math.sqrt(this.totalPower / this.N), in units of
\* 1/LevelScale, rounded down
Level(t) ==
  LET m2 == MagSq(t.dft)
      P == t.totalPower
  IN  IF IsNaN(m2) \/ IsNaN(P) THEN NaN
      ELSE IF P.v < 0 THEN NaN
      ELSE IF ~IsFin(m2) THEN (IF IsFin(P) THEN Inf(1) ELSE NaN)
      ELSE IF ~IsFin(P) THEN Zero
      ELSE IF P.v = 0 THEN (IF m2.v = 0 THEN NaN ELSE Inf(1))
      ELSE Fin(Isqrt((m2.v * t.N * LevelScale * LevelScale) \div P.v))

RECURSIVE Normalize(_, _, _)
\* the normalized samples: samples[i] / n with n = count / size
Normalize(samples, count, size) ==
  IF samples = <<>> THEN <<>>
  ELSE <<FDivRatio(Head(samples), count, size)>>
         \o Normalize(Tail(samples), count, size)

\* SlidingDFT.process as a function of the object and the input: the object
\* after the call, the level, whether it was posted, and the loop's steps
ProtoProcess(t, input) ==
  LET chs == Flatten(input)
      samples == MixInto(Zeros(windowSize), chs)
      count == CountSamples(chs)
      cur == Normalize(samples, count, windowSize)
      steps == Steps(t, cur)
      t1 == steps[Len(steps)]
      lvl == Level(t1)
      nuf == t1.nextUpdateFrame - 30 * windowSize
      post == nuf < 0
      t2 == [t1 EXCEPT !.nextUpdateFrame =
                         IF post THEN nuf + intervalInFrames(t1) ELSE nuf]
  IN  [this |-> t2, level |-> lvl, post |-> post, cur |-> cur, steps |-> steps,
       divisor |-> [num |-> count, den |-> windowSize]]


(* ------------- the engine PianolizerNode drives (from the spec) ------- *)
\* a * (num / den)
FScale(a, num, den) ==
  IF IsNaN(a) THEN NaN
  ELSE IF IsFin(a) THEN Fin(RoundDiv(a.v * num, den))
  ELSE IF num = 0 THEN NaN ELSE a

\* smoothed * (1 - smoothingFactor) + raw * smoothingFactor
Smooth(smoothed, raw, num) ==
  FAdd(FScale(smoothed, SmoothDen - num, SmoothDen), FScale(raw, num, SmoothDen))

\* an engine of one bin, its window sr samples, over a buffer of 2^bits
NewEngine(sr, bits) ==
  [ringBuffer |-> NewRingBuffer(bits), N |-> sr, coeff |-> CExpTurn(k, sr),
   dft |-> Complex(Zero, Zero), totalPower |-> Zero, levels |-> <<Zero>>]

\* process(sampleBlock, smoothingFactor): every sample through the bin, then
\* the bin's level, smoothed
EngineProcess(e, block, num) ==
  LET steps == Steps(e, block)
      e1 == IF block = <<>> THEN e ELSE steps[Len(steps)]
      raw == Level(e1)
      out == <<Smooth(e.levels[1], raw, num)>>
  IN  [this |-> [e1 EXCEPT !.levels = out], raw |-> <<raw>>, levels |-> out,
       steps |-> steps]

(* --------------------------- PianolizerNode --------------------------- *)
\* the constructor
NewNode == [samples |-> [null |-> TRUE, a |-> <<>>], nextUpdateFrame |-> 0]

RECURSIVE NodeMixChannel(_, _)
\* this.samples[sampleIndex] += sample for sampleIndex < windowSize; a frame
\* the channel lacks reads as undefined and adds as NaN
NodeMixChannel(samples, ch) ==
  IF samples = <<>> THEN <<>>
  ELSE <<Fround(FAdd(Head(samples), IF ch = <<>> THEN NaN ELSE Head(ch)))>>
         \o NodeMixChannel(Tail(samples), IF ch = <<>> THEN <<>> ELSE Tail(ch))

RECURSIVE NodeMixInto(_, _)
NodeMixInto(samples, chs) ==
  IF chs = <<>> THEN samples
  ELSE NodeMixInto(NodeMixChannel(samples, Head(chs)), Tail(chs))

RECURSIVE StoreAll(_)
\* values stored into a Float32Array, element by element
StoreAll(values) ==
  IF values = <<>> THEN <<>> ELSE <<Fround(Head(values))>> \o StoreAll(Tail(values))

\* the throttle: whether to post at currentTime now, and the next deadline
NodeThrottleDrifting(nuf, now) ==
  [post |-> nuf <= now, next |-> IF nuf <= now THEN nuf + updateInterval ELSE nuf]

NodeThrottle(nuf, now) ==
  [post |-> nuf <= now, next |-> IF nuf <= now THEN now + updateInterval ELSE nuf]

\* PianolizerNode.process as a function of the node nd, its engine e, the
\* input, parameters.smooth[0] = num / SmoothDen and currentTime = now
NodeProcess(nd, e, input, num, now) ==
  IF Len(input[1]) = 0
  THEN [node |-> nd, engine |-> e, ran |-> FALSE, post |-> FALSE,
        mono |-> <<>>, raw |-> <<>>, steps |-> <<>>,
        divisor |-> [num |-> 0, den |-> 1]]
  ELSE LET size == Len(input[1][1])
           buf == IF nd.samples.null \/ Len(nd.samples.a) # size
                    THEN Zeros(size) ELSE nd.samples.a
           chs == Flatten(input)
           count == Len(chs) * size
           mono == StoreAll(Normalize(NodeMixInto(buf, chs), count, size))
           r == EngineProcess(e, mono, num)
           th == NodeThrottle(nd.nextUpdateFrame, now)
       IN  [node |-> [samples |-> [null |-> FALSE, a |-> mono],
                      nextUpdateFrame |-> th.next],
            engine |-> r.this, ran |-> TRUE, post |-> th.post,
            mono |-> mono, raw |-> r.raw, steps |-> r.steps,
            divisor |-> [num |-> count, den |-> size]]

(* ------------------------------- inputs ------------------------------- *)
\* an input of one port with c channels of len frames: the first channel
\* carries block, the others silence
MkInput(c, len, block) ==
  IF c = 0 THEN << <<>> >>
  ELSE << <<block>> \o [j \in 1 .. c - 1 |-> Zeros(len)] >>

Blocks(len) == [1 .. len -> {Fin(x) : x \in SampleVals}]

InputsOf(counts, lens) ==
  {MkInput(c, len, b) : <<c, len, b>> \in
     UNION {{<<c, len, b>> : b \in Blocks(len)} : <<c, len>> \in counts \X lens}}

Inputs == InputsOf(ChannelCounts, BlockLens)

ChannelCount(input) == Len(Flatten(input))

FramesOf(input) ==
  IF ChannelCount(input) = 0 THEN 0 ELSE Len(Flatten(input)[1])

RECURSIVE TraceOf(_)
\* what the loop's iterations leave behind, one record per sample
TraceOf(steps) ==
  IF steps = <<>> THEN <<>>
  ELSE LET t == Head(steps)
       IN  << [dft |-> t.dft, totalPower |-> t.totalPower,
               previousSample |-> RBRead(t.ringBuffer, t.N),
               index |-> t.ringBuffer.index] >> \o TraceOf(Tail(steps))

(* ------------------------------- state -------------------------------- *)
VARIABLES
  ringBuffer,       \* this.ringBuffer: [mask, buffer, index]
  N,                \* this.N = sampleRate
  coeff,            \* this.coeff
  dft,              \* this.dft
  totalPower,       \* this.totalPower
  nextUpdateFrame,  \* this.nextUpdateFrame, in thirtieths of a frame
  port,             \* the messages posted, each with the call that posted it
  level,            \* the level the last process call computed
  hist,             \* every value passed to ringBuffer.write, in order
  trace,            \* the last call's per-sample steps
  calls,            \* process calls (or writes) so far
  lastChannels,     \* the last call's channel count, -1 before any call
  lastFrames,       \* the last call's frames per channel
  lastDivisor,      \* the last call's n = count / windowSize, as [num, den]
  lastRead,         \* the last RingBuffer.read: [index, value]
  samples,          \* PianolizerNode's this.samples: [null, a]
  nodeNextUpdateFrame,  \* PianolizerNode's this.nextUpdateFrame, in ticks
  currentTime,      \* the audio host's global currentTime, in ticks
  levels,           \* the engine's smoothed levels, what process last returned
  rawLevels,        \* the unsmoothed levels of the engine's last call
  mono,             \* the block the node last handed to the engine
  lastSmooth        \* the smoothing factor of the node's last call, in eighths

vars == <<ringBuffer, N, coeff, dft, totalPower, nextUpdateFrame, port,
          level, hist, trace, calls, lastChannels, lastFrames, lastDivisor,
          lastRead, samples, nodeNextUpdateFrame, currentTime, levels,
          rawLevels, mono, lastSmooth>>

nodeVars == <<samples, nodeNextUpdateFrame, currentTime, levels, rawLevels,
              mono, lastSmooth>>

\* the fields of the PianolizerNode object and of its engine
Node == [samples |-> samples, nextUpdateFrame |-> nodeNextUpdateFrame]

Engine == [ringBuffer |-> ringBuffer, N |-> N, coeff |-> coeff, dft |-> dft,
           totalPower |-> totalPower, levels |-> levels]

\* the fields of the SlidingDFT object
This == [ringBuffer |-> ringBuffer, N |-> N, coeff |-> coeff, dft |-> dft,
         totalPower |-> totalPower, nextUpdateFrame |-> nextUpdateFrame]

\* the state after new SlidingDFT() gave the object t
Constructed(t) ==
  /\ ringBuffer = t.ringBuffer
  /\ N = t.N
  /\ coeff = t.coeff
  /\ dft = t.dft
  /\ totalPower = t.totalPower
  /\ nextUpdateFrame = t.nextUpdateFrame
  /\ port = <<>>
  /\ level = Zero
  /\ hist = <<>>
  /\ trace = <<>>
  /\ calls = 0
  /\ lastChannels = -1
  /\ lastFrames = 0
  /\ lastDivisor = [num |-> 0, den |-> 1]
  /\ lastRead = [index |-> 0, value |-> Zero]
  /\ samples = NewNode.samples
  /\ nodeNextUpdateFrame = NewNode.nextUpdateFrame
  /\ currentTime = 0
  /\ levels = <<Zero>>
  /\ rawLevels = <<>>
  /\ mono = <<>>
  /\ lastSmooth = 0

(* ----------------------- the prototype's behaviours ------------------- *)
Init == \E cfg \in Configs : Constructed(NewSlidingDFT(cfg[1], cfg[2]))

\* SlidingDFT.process(input, output, parameters), for an input of inputs
ProcessWith(inputs, maxCalls) ==
  /\ calls < maxCalls
  /\ \E input \in inputs :
       \E r \in {ProtoProcess(This, input)} :
           /\ ringBuffer' = r.this.ringBuffer
           /\ dft' = r.this.dft
           /\ totalPower' = r.this.totalPower
           /\ nextUpdateFrame' = r.this.nextUpdateFrame
           /\ level' = r.level
           /\ port' = IF r.post
                        THEN Append(port, [level |-> r.level, call |-> calls + 1])
                        ELSE port
           /\ hist' = hist \o r.cur
           /\ trace' = TraceOf(r.steps)
           /\ lastChannels' = ChannelCount(input)
           /\ lastFrames' = FramesOf(input)
           /\ lastDivisor' = r.divisor
  /\ calls' = calls + 1
  /\ UNCHANGED <<N, coeff, lastRead>>
  /\ UNCHANGED nodeVars

Process == ProcessWith(Inputs, MaxCalls)

Next == Process

Spec == Init /\ [][Next]_vars

(* ------------------ the prototype's throttle behaviours --------------- *)
\* sample rates for which the update interval, N / 30 frames, is 1.5 to 3.5
\* blocks of windowSize frames (44100 gives 1470 frames, 11.48 blocks of 128).
\* These are not quarter-turn rates, so coeff is not the rate's own; the
\* inputs below are silent, and dft is then 0 whatever coeff is.
ThrottleRates == {90, 120, 150, 180, 210}
\* RingBuffer's bits for these rates: a buffer longer than every window
ThrottleBits == 8
\* silent blocks of windowSize frames on one or two channels
FrameInputs == {MkInput(c, windowSize, Zeros(windowSize)) : c \in {1, 2}}

InitFrames ==
  \E sr \in ThrottleRates : Constructed(NewSlidingDFT(sr, ThrottleBits))

FramedProcess == ProcessWith(FrameInputs, MaxFrameCalls)

NextFrames == FramedProcess

SpecFrames == InitFrames /\ [][NextFrames]_vars

(* ---------------- the prototype given malformed samples --------------- *)
\* the values a channel may carry when the input may be malformed
MalformedVals == {Zero, Fin(One), Inf(1), NaN}
\* one channel of windowSize such values
MalformedInputs ==
  {MkInput(1, windowSize, b) : b \in [1 .. windowSize -> MalformedVals]}

MalformedProcess == ProcessWith(MalformedInputs, MaxMalformedCalls)

NextMalformed == MalformedProcess

SpecMalformed == Init /\ [][NextMalformed]_vars

(* --------------------- the ring buffer's behaviours ------------------- *)
\* the values written: 0, a float32 value, and a value between two float32s
RingVals == {Zero, Fin(One), Fin(One \div 3)}
\* the lookbacks read
Lookbacks == 0 .. 9

InitRing == \E bits \in {1, 2} : Constructed(NewSlidingDFT(2, bits))

\* ringBuffer.write(value)
Write ==
  /\ calls < MaxWrites
  /\ \E value \in RingVals :
       /\ ringBuffer' = RBWrite(ringBuffer, value)
       /\ hist' = Append(hist, value)
  /\ calls' = calls + 1
  /\ UNCHANGED <<N, coeff, dft, totalPower, nextUpdateFrame, port, level,
                 trace, lastChannels, lastFrames, lastDivisor, lastRead>>
  /\ UNCHANGED nodeVars

\* ringBuffer.read(index)
Read ==
  /\ \E index \in Lookbacks :
       lastRead' = [index |-> index, value |-> RBRead(ringBuffer, index)]
  /\ UNCHANGED <<ringBuffer, N, coeff, dft, totalPower, nextUpdateFrame, port,
                 level, hist, trace, calls, lastChannels, lastFrames, lastDivisor>>
  /\ UNCHANGED nodeVars

NextRing == Write \/ Read

SpecRing == InitRing /\ [][NextRing]_vars

(* ---------------------- PianolizerNode's behaviours ------------------- *)
\* the engines a node is given: <<window length, bits>>
NodeConfigs == {<<2, 2>>, <<4, 3>>}

InitNode == \E cfg \in NodeConfigs : Constructed(NewSlidingDFT(cfg[1], cfg[2]))

\* PianolizerNode.process(input, output, parameters), the host's clock having
\* advanced by dt since the last call
NodeCallWith(inputs, smooths, dts, maxCalls) ==
  /\ calls < maxCalls
  /\ \E input \in inputs, num \in smooths, dt \in dts :
       \E r \in {NodeProcess(Node, Engine, input, num, currentTime + dt)} :
           /\ currentTime' = currentTime + dt
           /\ samples' = r.node.samples
           /\ nodeNextUpdateFrame' = r.node.nextUpdateFrame
           /\ ringBuffer' = r.engine.ringBuffer
           /\ dft' = r.engine.dft
           /\ totalPower' = r.engine.totalPower
           /\ levels' = r.engine.levels
           /\ rawLevels' = r.raw
           /\ mono' = r.mono
           /\ lastSmooth' = num
           /\ port' = IF r.post
                        THEN Append(port, [levels |-> r.engine.levels,
                                           call |-> calls + 1,
                                           at |-> currentTime + dt])
                        ELSE port
           /\ hist' = hist \o r.mono
           /\ trace' = TraceOf(r.steps)
           /\ lastChannels' = ChannelCount(input)
           /\ lastFrames' = FramesOf(input)
           /\ lastDivisor' = r.divisor
  /\ calls' = calls + 1
  /\ UNCHANGED <<N, coeff, nextUpdateFrame, level, lastRead>>

NodeInputs == InputsOf({0, 1, 2}, {1, 2})

NodeCall == NodeCallWith(NodeInputs, Smooths, {1}, MaxNodeCalls)

NextNode == NodeCall

SpecNode == InitNode /\ [][NextNode]_vars

\* the throttle's behaviours: few inputs, the clock advancing by 0 to 2 ticks
ThrottleInputs == InputsOf({0, 1}, {1})

TimedNodeCall == NodeCallWith(ThrottleInputs, {0}, 0 .. 2, MaxTimedCalls)

NextThrottle == TimedNodeCall

SpecThrottle == InitNode /\ [][NextThrottle]_vars

(* =============================== claims ================================ *)
\* x[m]: the m-th value passed to ringBuffer.write, 0 before the stream
SampleAt(m) == IF m >= 1 /\ m <= Len(hist) THEN hist[m] ELSE Zero

RECURSIVE CPow(_, _)
CPow(z, e) == IF e = 0 THEN Complex(Fin(1), Zero) ELSE CMul(CPow(z, e - 1), z)

RECURSIVE WindowDFT(_, _)
\* the sum over j = 0 .. jmax of x[n-j] * coeff^(j+1)
WindowDFT(n, jmax) ==
  IF jmax < 0 THEN Complex(Zero, Zero)
  ELSE CAdd(WindowDFT(n, jmax - 1),
            CMul(Complex(SampleAt(n - jmax), Zero), CPow(coeff, jmax + 1)))

RECURSIVE WindowSumSq(_, _)
\* the sum over j = 0 .. jmax of x[n-j]^2
WindowSumSq(n, jmax) ==
  IF jmax < 0 THEN Zero
  ELSE FAdd(WindowSumSq(n, jmax - 1), FMul(SampleAt(n - jmax), SampleAt(n - jmax)))

\* the first n values written are finite float32 values: the buffer holds
\* them as written
ExactUpTo(n) == \A j \in 1 .. n : IsFin(hist[j]) /\ Fround(hist[j]) = hist[j]

AllFinite == \A j \in 1 .. Len(hist) : IsFin(hist[j])

\* C1: after every per-sample update of process, for N < capacity, coeff^N = 1
\* and values the buffer holds exactly, dft is the single-frequency DFT of the
\* current window, the sum over j = 0..N-1 of x[n-j] * coeff^(j+1).
C1_SlidingEqualsRecomputed ==
  \A i \in 1 .. Len(trace) :
    ( /\ N < Capacity(ringBuffer)
      /\ CPow(coeff, N) = Complex(Fin(1), Zero)
      /\ ExactUpTo(trace[i].index) )
    => trace[i].dft = WindowDFT(trace[i].index, N - 1)

\* C1's case: a window of 4 with coeff = i in a buffer of 8, six exact
\* samples written, the first of them nonzero and already out of the window
C1_Witness ==
  /\ N = 4 /\ Capacity(ringBuffer) = 8
  /\ Len(hist) = 6 /\ Len(trace) = 2
  /\ ExactUpTo(6)
  /\ hist[1] = Fin(One) /\ hist[2] = Fin(One) /\ hist[4] = Fin(One)
  /\ dft.re # Zero /\ dft.im # Zero

\* C2: for N < capacity (and finite samples) totalPower is the sum of the
\* squares of the N most recent values written, and so is never negative.
C2_PowerIsWindowSum ==
  (N < Capacity(ringBuffer) /\ AllFinite)
  => /\ totalPower = WindowSumSq(Len(hist), N - 1)
     /\ IsFin(totalPower) /\ totalPower.v >= 0

\* the N most recent values written are all zero
WindowSilent == \A j \in 0 .. N - 1 : SampleAt(Len(hist) - j) = Zero

\* C4: when the window holds only zeros the level process computes is 0.0,
\* not NaN and not an infinity.
C4_SilenceLevelIsZero == (calls > 0 /\ WindowSilent) => level = Zero

\* C6: a call whose channels carry L > 0 frames makes exactly L writes and
\* divides by the number of channels.
C6_ConsumesExactlyL ==
  (calls > 0 /\ lastChannels > 0 /\ lastFrames > 0)
  => /\ Len(trace) = lastFrames
     /\ lastDivisor.num = lastChannels * lastDivisor.den

\* C7: an engine whose window is as long as the buffer or longer was rejected
\* by its constructor: it never runs the loop that reads back N samples.
C7_OversizedWindowRejected == N >= Capacity(ringBuffer) => trace = <<>>

\* C3 as stated: read(d), 0 <= d < capacity, is the value written d + 1 writes
\* before the most recent write (as the float32 the buffer holds).
C3_ReadIsDPlusOneBefore ==
  \A d \in 0 .. Capacity(ringBuffer) - 1 :
    d + 1 < Len(hist) => RBRead(ringBuffer, d) = Fround(hist[Len(hist) - (d + 1)])

\* C3 as amended: read(d), 0 <= d < capacity, is the value written d writes
\* before the most recent write, read(0) the most recent write itself, each
\* as the float32 the buffer holds.
C3_ReadIsDBefore ==
  \A d \in 0 .. Capacity(ringBuffer) - 1 :
    d < Len(hist) => RBRead(ringBuffer, d) = Fround(hist[Len(hist) - d])

\* C3's case: the buffer of 4 has wrapped and read(1) returned the last but
\* one write, a value that was rounded when stored
C3_Witness ==
  /\ Capacity(ringBuffer) = 4 /\ Len(hist) = 6
  /\ hist[5] = Fin(One \div 3) /\ hist[6] = Fin(One) /\ hist[4] = Zero
  /\ lastRead = [index |-> 1, value |-> Fin(3 * Grid)]

\* C9: a lookback at or past the capacity reads what the lookback less the
\* capacity reads, and a read changes neither the buffer nor its cursor.
C9_ReadAliases ==
  [][ /\ \A d \in Lookbacks :
           RBRead(ringBuffer', d + Capacity(ringBuffer'))
             = RBRead(ringBuffer', d)
      /\ lastRead' # lastRead => ringBuffer' = ringBuffer ]_vars

\* C9's case: the buffer of 4 has wrapped and read(5) returned the last but
\* one write, what read(1) returns
C9_Witness ==
  /\ Capacity(ringBuffer) = 4 /\ Len(hist) = 6
  /\ hist[5] = Fin(One) /\ hist[6] = Zero
  /\ lastRead = [index |-> 5, value |-> Fin(One)]

\* the analysis state of an engine: buffer contents and cursor, S and P
AnalysisState(t) ==
  [ringBuffer |-> t.ringBuffer, dft |-> t.dft, totalPower |-> t.totalPower]

\* the prototype after two calls of windowSize frames, b1 then b2, and after
\* one call of the same 2 * windowSize frames, on c channels
ProtoSplit(c, b1, b2) ==
  ProtoProcess(ProtoProcess(This, MkInput(c, windowSize, b1)).this,
               MkInput(c, windowSize, b2)).this

ProtoWhole(c, b1, b2) ==
  ProtoProcess(This, MkInput(c, 2 * windowSize, b1 \o b2)).this

\* the same for the node and its engine
NodeSplit(c, b1, b2) ==
  LET first == NodeProcess(Node, Engine, MkInput(c, windowSize, b1), 0,
                           currentTime)
  IN  NodeProcess(first.node, first.engine, MkInput(c, windowSize, b2), 0,
                  currentTime).engine

NodeWhole(c, b1, b2) ==
  NodeProcess(Node, Engine, MkInput(c, 2 * windowSize, b1 \o b2), 0,
              currentTime).engine

\* C5: from every reachable state, feeding 2 * windowSize frames in one call
\* or in two calls of windowSize frames leaves the same analysis state, in the
\* prototype and in the node.
C5_BlockSizeInvariant ==
  \A c \in {1, 2} : \A b1, b2 \in Blocks(windowSize) :
    /\ AnalysisState(ProtoSplit(c, b1, b2)) = AnalysisState(ProtoWhole(c, b1, b2))
    /\ AnalysisState(NodeSplit(c, b1, b2)) = AnalysisState(NodeWhole(c, b1, b2))

\* C8: two consecutive posts of the node are at least updateInterval apart in
\* currentTime, and come from different process calls.
C8_PostsOncePerInterval ==
  \A i \in 1 .. Len(port) - 1 :
    /\ port[i + 1].at >= port[i].at + updateInterval
    /\ port[i + 1].call > port[i].call

\* C8's case: the first call posted, two later calls inside the interval did
\* not although they ran the engine, and the fourth call, one interval after
\* the first, posted
C8_Witness ==
  /\ Len(port) = 2 /\ calls = 4 /\ lastChannels = 1
  /\ port[1].call = 1 /\ port[2].call = 4
  /\ port[2].at = port[1].at + updateInterval
  /\ Len(hist) = 4

C11_PreviousIsNStepsOlder ==
  \A i \in 1 .. Len(trace) :
    N < Capacity(ringBuffer)
    => trace[i].previousSample = SampleAt(trace[i].index - N)

\* C12: two consecutive posts of the prototype are at least intervalInFrames
\* (N / 30) processed frames apart, each call processing windowSize frames
\* (both sides in thirtieths of a frame).
C12_FramePostsOncePerInterval ==
  \A i \in 1 .. Len(port) - 1 :
    30 * windowSize * (port[i + 1].call - port[i].call) >= intervalInFrames(This)

\* the mix of one call's input alone: frame by frame the sum over all channels
\* divided by the channel count, as a float32
FreshMix(input) ==
  StoreAll(Normalize(MixInto(Zeros(FramesOf(input)), Flatten(input)),
                     ChannelCount(input), 1))

\* C13: in every reachable state of the node, the mono block a call with at
\* least one channel hands to the engine is the mix of that call's input
\* alone, whatever the earlier calls were given.
C13_MonoIsCurrentMixOnly ==
  \A input \in NodeInputs :
    ChannelCount(input) > 0
    => NodeProcess(Node, Engine, input, 0, currentTime).mono = FreshMix(input)

\* no NaN and no infinity in the buffer, in S or in P
AnalysisFinite ==
  /\ IsFin(dft.re) /\ IsFin(dft.im) /\ IsFin(totalPower)
  /\ \A j \in DOMAIN ringBuffer.buffer : IsFin(ringBuffer.buffer[j])

\* PianolizerNode.process given no channels returns early: engine and node
\* are as before and nothing is posted
NodeSkipsNoChannels ==
  \A num \in Smooths :
    LET r == NodeProcess(Node, Engine, MkInput(0, 0, <<>>), num, currentTime)
    IN  ~r.ran /\ ~r.post /\ r.engine = Engine /\ r.node = Node

\* C14: a call without channels puts nothing undefined into the analysis
\* state: after such a call of the prototype the buffer, S and P are finite,
\* and such a call of the node changes nothing.
C14_ZeroChannelsHarmless ==
  /\ lastChannels = 0 => AnalysisFinite
  /\ NodeSkipsNoChannels

\* some value handed to the buffer so far was a NaN or an infinity
NonFiniteSeen == \E j \in 1 .. Len(hist) : ~IsFin(hist[j])

\* one of the last call's values was
NonFiniteInLastCall ==
  \E j \in 1 .. Len(trace) : ~IsFin(hist[Len(hist) - Len(trace) + j])

\* C15: the call that processes a non-finite sample computes a non-finite
\* level, and after every call from then on neither S nor P is finite,
\* whatever the later samples are and however long ago the sample left the
\* window.
C15_NonFiniteAbsorbing ==
  /\ NonFiniteInLastCall => ~IsFin(level)
  /\ NonFiniteSeen => /\ ~(IsFin(dft.re) /\ IsFin(dft.im))
                      /\ ~IsFin(totalPower)

\* C15's case: a window of 2 in a buffer of 4, the first sample ever an
\* infinity, then two calls of finite samples, by which the infinity has left
\* the window; S, P and the level are still not finite
C15_Witness ==
  /\ calls = 3 /\ N = 2 /\ Capacity(ringBuffer) = 4 /\ Len(hist) = 6
  /\ hist[1] = Inf(1)
  /\ \A j \in 2 .. 6 : IsFin(hist[j])
  /\ hist[6] = Fin(One)
  /\ ~NonFiniteInLastCall
  /\ ~IsFin(totalPower) /\ ~IsFin(level)

\* C16: every finite value process hands to the buffer is stored as it is
\* (rounding it to a float32 changes nothing), so what is later subtracted
\* from S and P is what was added, and P is never negative.
C16_StoredEqualsUnrounded ==
  /\ \A j \in 1 .. Len(hist) : IsFin(hist[j]) => Fround(hist[j]) = hist[j]
  /\ IsFin(totalPower) => totalPower.v >= 0

=============================================================================
